---- MODULE Spec2Model ----
(***************************************************************************)
(* A model of the movie catalog: the storage engine of                     *)
(* movie_storage_sql.py (one SQLite table behind SQLAlchemy) and the       *)
(* catalog functions of movies.py that are built on it.                    *)
(*                                                                         *)
(* Text is held as a sequence of one-character strings, so that strip(),   *)
(* lower(), slicing, int() and float() are computed and not assumed.       *)
(* Ratings are held in tenths (7.5 is 75); every rating text used has at   *)
(* most one fractional digit, so nothing is lost.                          *)
(***************************************************************************)
EXTENDS Integers, Sequences, FiniteSets, TLC

VARIABLES
    store,    \* the file data/movies.db and its directory
    table,    \* the committed rows of table movies, in rowid order
    apiKey,   \* whether OMDB_API_KEY is configured
    pc,       \* where the interactive program is
    exc,      \* the exception that ended the program ("none" while it runs)
    at,       \* the function the exception escaped from
    out,      \* the messages the latest step printed
    last,     \* the storage call the latest step made: its name and arguments
    view,     \* what the latest step computed, when it was a read operation
    cur,      \* locals of add_movies / update_movies while a prompt is open
    ref,      \* history: the reference mapping kept from the reported outcomes
    ctable,   \* concurrent clients: committed rows of the shared table
    lock,     \* concurrent clients: the holder of SQLite's write lock (0: free)
    cl,       \* concurrent clients: each client's call in progress
    cref      \* history: reference mapping of the concurrent run

vars == <<store, table, apiKey, pc, exc, at, out, last, view, cur, ref,
          ctable, lock, cl, cref>>

seqvars == <<store, table, apiKey, pc, exc, at, out, last, view, cur, ref>>
concvars == <<ctable, lock, cl, cref>>

----------------------------------------------------------------------------
(* Bounds and program constants *)

\* The most rows a call may leave in the table.  Three titles are in use, so the
\* UNIQUE column keeps the table within it; it ends the search when a changed
\* model lets the table grow.
MaxRows == 3
\* The calls each concurrent client makes.
MaxCalls == 2

MIN_YEAR == 1888
MAX_YEAR == 2026
MIN_RATING == 0
MAX_RATING == 10

----------------------------------------------------------------------------
(* Text *)

T_U == <<"U">>
T_u == <<"u">>
T_D == <<"D", "u">>
Empty == <<>>
Missing == <<"(key absent)">>

IsSpace(c) == c = " "

RECURSIVE LStrip(_)
LStrip(s) == IF s # <<>> /\ IsSpace(Head(s)) THEN LStrip(Tail(s)) ELSE s

RECURSIVE RStrip(_)
RStrip(s) ==
    IF s # <<>> /\ IsSpace(s[Len(s)]) THEN RStrip(SubSeq(s, 1, Len(s) - 1)) ELSE s

Strip(s) == RStrip(LStrip(s))

LowerChar(c) ==
    CASE c = "U" -> "u"
      [] c = "D" -> "d"
      [] c = "N" -> "n"
      [] c = "A" -> "a"
      [] OTHER -> c

Lower(s) == [i \in 1..Len(s) |-> LowerChar(s[i])]

Contains(s, q) ==
    \E i \in 0..(Len(s) - Len(q)) : SubSeq(s, i + 1, i + Len(q)) = q

Take(s, n) == SubSeq(s, 1, IF Len(s) < n THEN Len(s) ELSE n)

Digits == <<"0", "1", "2", "3", "4", "5", "6", "7", "8", "9">>

IsDigit(c) == \E d \in 1..10 : Digits[d] = c

DigitVal(c) == (CHOOSE d \in 1..10 : Digits[d] = c) - 1

AllDigits(s) == s # <<>> /\ \A i \in 1..Len(s) : IsDigit(s[i])

RECURSIVE DecVal(_)
DecVal(s) ==
    IF s = <<>> THEN 0 ELSE DecVal(SubSeq(s, 1, Len(s) - 1)) * 10 + DigitVal(s[Len(s)])

ValueError == [ok |-> FALSE, val |-> 0]

ParseInt(s) == IF AllDigits(s) THEN [ok |-> TRUE, val |-> DecVal(s)] ELSE ValueError

DotAt(s) == IF \E i \in 1..Len(s) : s[i] = "."
            THEN CHOOSE i \in 1..Len(s) : s[i] = "." /\ \A j \in 1..(i - 1) : s[j] # "."
            ELSE 0

ParseFloat(s) ==
    LET d == DotAt(s)
        whole == IF d = 0 THEN s ELSE SubSeq(s, 1, d - 1)
        frac == IF d = 0 THEN <<>> ELSE SubSeq(s, d + 1, Len(s))
    IN  IF AllDigits(whole) /\ (frac = <<>> \/ (Len(frac) = 1 /\ IsDigit(frac[1]))) /\ (d = 0 \/ frac # <<>>)
        THEN [ok |-> TRUE,
              val |-> DecVal(whole) * 10 + (IF frac = <<>> THEN 0 ELSE DigitVal(frac[1]))]
        ELSE ValueError

Tenths(n) == n * 10

----------------------------------------------------------------------------
(* The backing store: sqlite:///data/movies.db *)

\* store is one of
\*   "nodir"   the directory data/ does not exist
\*   "nofile"  data/ exists and holds no movies.db
\*   "empty"   movies.db is a database without table movies
\*   "ready"   movies.db holds table movies
\*   "garbage" movies.db is not a database file
Stores == {"nodir", "nofile", "empty", "ready", "garbage"}

Row(t, y, r, p) == [title |-> t, year |-> y, rating |-> r, poster_url |-> p]

\* The exception classes of sqlalchemy.exc, and ValueError.
Parent(c) ==
    CASE c = "OperationalError" -> "DatabaseError"
      [] c = "IntegrityError" -> "DatabaseError"
      [] c = "DatabaseError" -> "Exception"
      [] c = "ValueError" -> "Exception"
      [] c = "ConnectionError" -> "RequestException"
      [] c = "Timeout" -> "RequestException"
      [] c = "JSONDecodeError" -> "RequestException"
      [] c = "RequestException" -> "Exception"
      [] OTHER -> "Exception"

RECURSIVE IsInstance(_, _)
IsInstance(e, c) ==
    IF e = "none" THEN FALSE
    ELSE IF e = c THEN TRUE
    ELSE IF e = "Exception" THEN FALSE
    ELSE IsInstance(Parent(e), c)

\* engine.connect(): SQLite opens the file, creating it when the directory is there.
Open(s) == IF s = "nofile" THEN "empty" ELSE s

ConnectError(s) == IF s = "nodir" THEN "OperationalError" ELSE "none"

\* What a statement that names table movies raises on an opened store.
StmtError(s) ==
    CASE s = "nodir" -> "OperationalError"
      [] s = "garbage" -> "DatabaseError"
      [] s = "empty" -> "OperationalError"
      [] OTHER -> "none"

\* Mutant: the column is declared without UNIQUE.
NoUniqueConstraint(tbl, title) == FALSE

\* title TEXT UNIQUE NOT NULL: the comparison is SQLite's BINARY collation.
UniqueViolation(tbl, title) == \E i \in 1..Len(tbl) : tbl[i].title = title

\* id INTEGER PRIMARY KEY AUTOINCREMENT: a new row's rowid is above every other.
InsertRow(tbl, row) == Append(tbl, row)

\* Mutant: WHERE title = :title COLLATE NOCASE in the row count.
MatchesNoCase(tbl, title) == {i \in 1..Len(tbl) : Lower(tbl[i].title) = Lower(title)}

Matches(tbl, title) == {i \in 1..Len(tbl) : tbl[i].title = title}

\* Mutant: DELETE compares titles without regard to letter case.
DeleteRowsNoCase(tbl, title) == SelectSeq(tbl, LAMBDA r : Lower(r.title) # Lower(title))

DeleteRows(tbl, title) == SelectSeq(tbl, LAMBDA r : r.title # title)

\* Mutant: UPDATE compares titles without regard to letter case.
UpdateRowsNoCase(tbl, title, rating) ==
    [i \in 1..Len(tbl) |->
        IF Lower(tbl[i].title) = Lower(title) THEN [tbl[i] EXCEPT !.rating = rating]
        ELSE tbl[i]]

UpdateRows(tbl, title, rating) ==
    [i \in 1..Len(tbl) |->
        IF tbl[i].title = title THEN [tbl[i] EXCEPT !.rating = rating] ELSE tbl[i]]

\* {row[0]: {...} for row in movies}: a dict keeps the place of a key's first
\* insertion and the value of its last.
RECURSIVE DictOfRows(_)
DictOfRows(rows) ==
    IF rows = <<>> THEN <<>>
    ELSE LET d == DictOfRows(SubSeq(rows, 1, Len(rows) - 1))
             r == rows[Len(rows)]
         IN  IF \E i \in 1..Len(d) : d[i].title = r.title
             THEN [i \in 1..Len(d) |-> IF d[i].title = r.title THEN r ELSE d[i]]
             ELSE Append(d, r)

\* The result of a storage function: the store and table it leaves, the message it
\* prints, the exception it lets escape, and what it returns.
Result(s, tbl, msg, e, ret) ==
    [store |-> s, table |-> tbl, out |-> msg, exc |-> e, ret |-> ret]

create_table(s, tbl) ==
    IF ConnectError(s) # "none" THEN Result(s, tbl, "none", ConnectError(s), <<>>)
    ELSE IF Open(s) = "garbage" THEN Result(s, tbl, "none", "DatabaseError", <<>>)
    ELSE Result("ready", IF Open(s) = "ready" THEN tbl ELSE <<>>, "none", "none", <<>>)

storage_list_movies(s, tbl) ==
    LET e == IF ConnectError(s) # "none" THEN ConnectError(s) ELSE StmtError(Open(s))
    IN  IF e = "none" THEN Result(Open(s), tbl, "none", "none", DictOfRows(tbl))
        ELSE IF IsInstance(e, "OperationalError")
        THEN Result(Open(s), tbl, "dberror", "none", <<>>)
        ELSE Result(Open(s), tbl, "none", e, <<>>)

\* Mutant: INSERT OR REPLACE INTO movies, which overwrites the row of a stored title.
add_movie_replace(s, tbl, title, year, rating, poster_url) ==
    LET e == IF ConnectError(s) # "none" THEN ConnectError(s) ELSE StmtError(Open(s))
    IN  IF e = "none"
        THEN Result(Open(s),
                    InsertRow(DeleteRows(tbl, title), Row(title, year, rating, poster_url)),
                    "added", "none", <<>>)
        ELSE IF IsInstance(e, "OperationalError")
        THEN Result(Open(s), tbl, "dberror", "none", <<>>)
        ELSE Result(Open(s), tbl, "none", e, <<>>)

add_movie(s, tbl, title, year, rating, poster_url) ==
    LET e == IF ConnectError(s) # "none" THEN ConnectError(s)
             ELSE IF StmtError(Open(s)) # "none" THEN StmtError(Open(s))
             ELSE IF UniqueViolation(tbl, title) THEN "IntegrityError"
             ELSE "none"
    IN  IF e = "none"
        THEN Result(Open(s), InsertRow(tbl, Row(title, year, rating, poster_url)),
                    "added", "none", <<>>)
        ELSE IF IsInstance(e, "IntegrityError")
        THEN Result(Open(s), tbl, "exists", "none", <<>>)
        ELSE IF IsInstance(e, "OperationalError")
        THEN Result(Open(s), tbl, "dberror", "none", <<>>)
        ELSE Result(Open(s), tbl, "none", e, <<>>)

delete_movie(s, tbl, title) ==
    LET e == IF ConnectError(s) # "none" THEN ConnectError(s) ELSE StmtError(Open(s))
        rowcount == Cardinality(Matches(tbl, title))
    IN  IF e = "none"
        THEN Result(Open(s), DeleteRows(tbl, title),
                    IF rowcount > 0 THEN "deleted" ELSE "notfound", "none", <<>>)
        ELSE IF IsInstance(e, "OperationalError")
        THEN Result(Open(s), tbl, "dberror", "none", <<>>)
        ELSE Result(Open(s), tbl, "none", e, <<>>)

update_movie(s, tbl, title, rating) ==
    LET e == IF ConnectError(s) # "none" THEN ConnectError(s) ELSE StmtError(Open(s))
        rowcount == Cardinality(Matches(tbl, title))
    IN  IF e = "none"
        THEN Result(Open(s), UpdateRows(tbl, title, rating),
                    IF rowcount > 0 THEN "updated" ELSE "notfound", "none", <<>>)
        ELSE IF IsInstance(e, "OperationalError")
        THEN Result(Open(s), tbl, "dberror", "none", <<>>)
        ELSE Result(Open(s), tbl, "none", e, <<>>)

----------------------------------------------------------------------------
(* The metadata lookup: fetch_movie_data *)

P_url == <<"p">>
NA == <<"N", "/", "A">>
S_True == <<"T">>
S_False == <<"F">>
S_0 == <<"0">>

\* dict.get(key, default)
Get(v, default) == IF v = Missing THEN default ELSE v

NoData == [ok |-> FALSE, title |-> Empty, year |-> 0, rating |-> 0, poster_url |-> Empty]

Lookup(d, msg, e) == [data |-> d, out |-> msg, exc |-> e]

\* resp.raised is the exception requests.get / response.json() raised ("none" when
\* a JSON object came back); the other fields are the keys of that object.
fetch_movie_data(title, key, resp) ==
    IF ~key THEN Lookup(NoData, "nokey", "none")
    ELSE IF resp.raised # "none"
    THEN IF IsInstance(resp.raised, "RequestException")
         THEN Lookup(NoData, "apierror", "none")
         ELSE Lookup(NoData, "none", resp.raised)
    ELSE IF resp.Response = S_True
    THEN LET y == ParseInt(Take(Get(resp.Year, S_0), 4))
             r == ParseFloat(Get(resp.imdbRating, S_0))
         IN  IF ~y.ok \/ ~r.ok THEN Lookup(NoData, "none", "ValueError")
             ELSE Lookup([ok |-> TRUE, title |-> Get(resp.Title, title), year |-> y.val,
                          rating |-> r.val, poster_url |-> Get(resp.Poster, Empty)],
                         "found", "none")
    ELSE Lookup(NoData, "apinotfound", "none")

----------------------------------------------------------------------------
(* The catalog functions over the mapping storage.list_movies() returns *)

Reverse(s) == [i \in 1..Len(s) |-> s[Len(s) + 1 - i]]

\* x placed after every element whose rating is not above its own: one step of a
\* stable ascending sort.
RECURSIVE InsertAsc(_, _)
InsertAsc(sorted, x) ==
    IF sorted = <<>> THEN <<x>>
    ELSE IF sorted[Len(sorted)].rating <= x.rating THEN Append(sorted, x)
    ELSE Append(InsertAsc(SubSeq(sorted, 1, Len(sorted) - 1), x), sorted[Len(sorted)])

RECURSIVE StableSortAsc(_)
StableSortAsc(s) ==
    IF s = <<>> THEN <<>>
    ELSE InsertAsc(StableSortAsc(SubSeq(s, 1, Len(s) - 1)), s[Len(s)])

\* Mutant: sort in ascending order, then reverse the result.
SortedThenReversed(items) == Reverse(StableSortAsc(items))

\* sorted(items, key=rating, reverse=True): list.sort reverses, sorts stably in
\* ascending order and reverses again, which keeps equal keys in their first order.
SortedByRating(items) == Reverse(StableSortAsc(Reverse(items)))

\* Mutant: a later item of the same rating replaces the one held.
RECURSIVE MaxIdxLast(_, _)
MaxIdxLast(items, n) ==
    IF n = 1 THEN 1
    ELSE LET m == MaxIdxLast(items, n - 1)
         IN  IF items[n].rating >= items[m].rating THEN n ELSE m

\* max(items, key=rating): the first item no later item exceeds.
RECURSIVE MaxIdx(_, _)
MaxIdx(items, n) ==
    IF n = 1 THEN 1
    ELSE LET m == MaxIdx(items, n - 1)
         IN  IF items[n].rating > items[m].rating THEN n ELSE m

\* min(items, key=rating): the first item no later item is below.
RECURSIVE MinIdx(_, _)
MinIdx(items, n) ==
    IF n = 1 THEN 1
    ELSE LET m == MinIdx(items, n - 1)
         IN  IF items[n].rating < items[m].rating THEN n ELSE m

RECURSIVE SumRatings(_)
SumRatings(items) ==
    IF items = <<>> THEN 0 ELSE items[1].rating + SumRatings(Tail(items))

\* What a read operation computed. avg is the quotient num / den, kept exact.
View(kind, items, num, den, best, worst) ==
    [kind |-> kind, items |-> items, num |-> num, den |-> den,
     best |-> best, worst |-> worst]

NoView == View("none", <<>>, 0, 0, <<>>, <<>>)

Stats(movies) ==
    View("stats", <<>>, SumRatings(movies), Len(movies),
         <<movies[MaxIdx(movies, Len(movies))]>>,
         <<movies[MinIdx(movies, Len(movies))]>>)

SearchHits(movies, query) ==
    SelectSeq(movies, LAMBDA m : Contains(Lower(m.title), query))

\* One <li> block of the grid: the poster is left out when empty or "N/A".
Block(m) == [title |-> m.title, year |-> m.year, rating |-> m.rating,
             img |-> IF m.poster_url # Empty /\ m.poster_url # NA
                     THEN m.poster_url ELSE Empty]

MovieGrid(movies) == [i \in 1..Len(movies) |-> Block(movies[i])]

----------------------------------------------------------------------------
(* What the user types and what the metadata service answers *)

AllTitles == {T_U, T_u, T_D}

RawTitles == {Empty, <<" ">>, T_U, T_u, T_D, <<" ", "U", " ">>}

Queries == {Empty, <<" ">>, <<"U">>, <<"d", "u">>, <<"x">>}

YearInputs == {<<"2", "0", "2", "6">>, <<"1", "8", "8", "7">>,
               <<"2", "0", "2", "7">>, <<"x">>}

RatingInputs == {<<"9">>, <<"1", "0", ".", "5">>, <<"x">>}

Y_2026 == <<"2", "0", "2", "6">>
Y_series == <<"2", "0", "2", "6", "-", "2", "7">>
R_75 == <<"7", ".", "5">>

Raises == {"ConnectionError", "Timeout", "JSONDecodeError"}

Json(response, title, year, rating, poster) ==
    [raised |-> "none", Response |-> response, Title |-> title, Year |-> year,
     imdbRating |-> rating, Poster |-> poster]

Failed(e) == [raised |-> e, Response |-> Missing, Title |-> Missing, Year |-> Missing,
              imdbRating |-> Missing, Poster |-> Missing]

\* Without a key fetch_movie_data returns before it asks.
NoRequest == Failed("none")

\* What the service answers: a failure of the request, a record (canonical title
\* or none, a year or the span of a series, keys left out, "N/A" for a number), or
\* no match.
Responses ==
    {Failed(e) : e \in Raises}
    \cup {Json(S_True, T_U, Y_series, R_75, P_url),
          Json(S_True, Missing, Y_series, R_75, P_url),
          Json(S_True, T_D, Missing, R_75, Missing),
          Json(S_True, T_U, Y_2026, NA, NA),
          Json(S_True, T_U, NA, R_75, P_url),
          Json(S_False, Missing, Missing, Missing, Missing),
          Json(Missing, Missing, Missing, Missing, Missing)}

----------------------------------------------------------------------------
(* History: the reference mapping, kept from the arguments of each call and *)
(* the message it printed, never from the table.                            *)

NoRow == Row(Empty, 0, 0, Empty)

NoRef == [t \in AllTitles |-> NoRow]

\* fn is the catalog function that ran, op the storage function it called.
Call(fn, op, t, y, r, p) ==
    [fn |-> fn, op |-> op, title |-> t, year |-> y, rating |-> r, poster_url |-> p]

NoCall == Call("none", "none", Empty, 0, 0, Empty)

RefAfter(m, c, msgs) ==
    IF c.title \notin AllTitles THEN m
    ELSE IF c.op = "add_movie" /\ msgs = <<"added">>
    THEN [m EXCEPT ![c.title] = Row(c.title, c.year, c.rating, c.poster_url)]
    ELSE IF c.op = "delete_movie" /\ msgs = <<"deleted">>
    THEN [m EXCEPT ![c.title] = NoRow]
    ELSE IF c.op = "update_movie" /\ msgs = <<"updated">> /\ m[c.title] # NoRow
    THEN [m EXCEPT ![c.title].rating = c.rating]
    ELSE m

----------------------------------------------------------------------------
(* The interactive program *)

NoCur == [op |-> "none", title |-> Empty, year |-> 0]

Msgs(r) == IF r.out = "none" THEN <<>> ELSE <<r.out>>

Init ==
    /\ store \in {"nodir", "nofile", "ready"}
    /\ table = <<>>
    /\ apiKey \in BOOLEAN
    /\ pc = "start"
    /\ exc = "none"
    /\ at = "none"
    /\ out = <<>>
    /\ last = NoCall
    /\ view = NoView
    /\ cur = NoCur
    /\ ref = NoRef
    /\ ctable = <<>>
    /\ lock = 0
    /\ cl = <<>>
    /\ cref = NoRef

\* An exception nobody catches ends the program.
Escapes(e, fn) ==
    /\ pc' = "crashed"
    /\ exc' = e
    /\ at' = fn
    /\ cur' = NoCur

Returns ==
    /\ pc' = "menu"
    /\ exc' = "none"
    /\ at' = "none"
    /\ cur' = NoCur

\* A call of a mutating storage function, after the messages `before`.
StorageCall(r, c, before) ==
    /\ Len(r.table) <= MaxRows
    /\ store' = r.store
    /\ table' = r.table
    /\ last' = c
    /\ out' = before \o Msgs(r)
    /\ view' = NoView
    /\ ref' = RefAfter(ref, c, Msgs(r))
    /\ IF r.exc # "none" THEN Escapes(r.exc, c.op) ELSE Returns
    /\ UNCHANGED <<apiKey, concvars>>

\* import movie_storage_sql as storage: the module creates its table when loaded.
ImportStorage ==
    /\ pc = "start"
    /\ LET r == create_table(store, table)
       IN  /\ store' = r.store
           /\ table' = r.table
           /\ IF r.exc # "none" THEN Escapes(r.exc, "create_table")
              ELSE pc' = "loaded" /\ exc' = "none" /\ at' = "none" /\ cur' = NoCur
    /\ last' = Call("import", "create_table", Empty, 0, 0, Empty)
    /\ out' = <<>>
    /\ view' = NoView
    /\ UNCHANGED <<apiKey, ref, concvars>>

\* main(), up to the menu: os.makedirs("data", exist_ok=True)
main ==
    /\ pc = "loaded"
    /\ store' = IF store = "nodir" THEN "nofile" ELSE store
    /\ pc' = "menu"
    /\ out' = <<>>
    /\ last' = NoCall
    /\ view' = NoView
    /\ UNCHANGED <<table, apiKey, exc, at, cur, ref, concvars>>

Exit ==
    /\ pc = "menu"
    /\ pc' = "exit"
    /\ out' = <<>>
    /\ last' = NoCall
    /\ view' = NoView
    /\ UNCHANGED <<store, table, apiKey, exc, at, cur, ref, concvars>>

\* The program is started again; the store stays as the last run left it.
Restart ==
    /\ pc \in {"exit", "crashed"}
    /\ pc' = "start"
    /\ apiKey' \in BOOLEAN
    /\ exc' = "none"
    /\ at' = "none"
    /\ out' = <<>>
    /\ last' = NoCall
    /\ view' = NoView
    /\ cur' = NoCur
    /\ UNCHANGED <<store, table, ref, concvars>>

\* Something outside the program removes the directory, removes the file (or makes
\* the directory anew), or overwrites the file with something that is no database.
EnvFault ==
    /\ \E s \in {"nodir", "nofile", "garbage"} :
          /\ s # store
          /\ store' = s
    /\ table' = <<>>
    /\ ref' = NoRef
    /\ out' = <<>>
    /\ last' = NoCall
    /\ view' = NoView
    /\ UNCHANGED <<apiKey, pc, exc, at, cur, concvars>>

\* A read operation of the catalog: list, then compute.
ReadCall(fn, r, msgs, v) ==
    /\ store' = r.store
    /\ table' = r.table
    /\ last' = Call(fn, "list_movies", Empty, 0, 0, Empty)
    /\ IF r.exc # "none"
       THEN Escapes(r.exc, "storage.list_movies") /\ out' = <<>> /\ view' = NoView
       ELSE Returns /\ out' = Msgs(r) \o msgs /\ view' = v
    /\ UNCHANGED <<apiKey, ref, concvars>>

list_movies ==
    /\ pc = "menu"
    /\ LET r == storage_list_movies(store, table)
       IN  IF r.ret = <<>>
           THEN ReadCall("list_movies", r, <<"nomovies">>, NoView)
           ELSE ReadCall("list_movies", r, <<>>, View("list", r.ret, 0, 0, <<>>, <<>>))

stats_movies ==
    /\ pc = "menu"
    /\ LET r == storage_list_movies(store, table)
       IN  IF r.ret = <<>>
           THEN ReadCall("stats_movies", r, <<"nostats">>, NoView)
           ELSE ReadCall("stats_movies", r, <<>>, Stats(r.ret))

random_movie ==
    /\ pc = "menu"
    /\ LET r == storage_list_movies(store, table)
       IN  IF r.ret = <<>>
           THEN ReadCall("random_movie", r, <<"nomovies">>, NoView)
           ELSE \E i \in 1..Len(r.ret) :
                   ReadCall("random_movie", r, <<>>,
                            View("random", <<r.ret[i]>>, 0, 0, <<>>, <<>>))

search_movie ==
    /\ pc = "menu"
    /\ \E raw \in Queries :
          LET query == Lower(Strip(raw))
              r == storage_list_movies(store, table)
              hits == SearchHits(r.ret, query)
          IN  IF query = Empty
              THEN /\ Returns
                   /\ out' = <<>>
                   /\ view' = NoView
                   /\ last' = NoCall
                   /\ UNCHANGED <<store, table, apiKey, ref, concvars>>
              ELSE ReadCall("search_movie", r,
                            IF hits = <<>> THEN <<"nomatch">> ELSE <<>>,
                            View("search", hits, 0, 0, <<>>, <<>>))

movies_sorted_by_rating ==
    /\ pc = "menu"
    /\ LET r == storage_list_movies(store, table)
       IN  IF r.ret = <<>>
           THEN ReadCall("movies_sorted_by_rating", r, <<"nosort">>, NoView)
           ELSE ReadCall("movies_sorted_by_rating", r, <<>>,
                         View("sorted", SortedByRating(r.ret), 0, 0, <<>>, <<>>))

\* The template file _static/index_template.html is there or not.
generate_website ==
    /\ pc = "menu"
    /\ \E template \in BOOLEAN :
          LET r == storage_list_movies(store, table)
          IN  IF template
              THEN ReadCall("generate_website", r, <<"generated">>,
                            View("website", MovieGrid(r.ret), 0, 0, <<>>, <<>>))
              ELSE ReadCall("generate_website", r, <<"notemplate">>, NoView)

\* A catalog function that returns before it calls the storage engine.
NoStorageCall(msgs) ==
    /\ Returns
    /\ out' = msgs
    /\ last' = NoCall
    /\ view' = NoView
    /\ UNCHANGED <<store, table, apiKey, ref, concvars>>

\* A catalog function stops at a prompt of get_valid_year / get_valid_rating.
Prompt(where, c, msgs) ==
    /\ pc' = where
    /\ cur' = c
    /\ out' = msgs
    /\ last' = NoCall
    /\ view' = NoView
    /\ UNCHANGED <<store, table, apiKey, exc, at, ref, concvars>>

add_movies ==
    /\ pc = "menu"
    /\ \E raw \in RawTitles, resp \in IF apiKey THEN Responses ELSE {NoRequest} :
          LET title == Strip(raw)
              f == fetch_movie_data(title, apiKey, resp)
          IN  IF title = Empty THEN NoStorageCall(<<"emptytitle">>)
              ELSE IF f.exc # "none"
              THEN /\ Escapes(f.exc, "fetch_movie_data")
                   /\ out' = <<>>
                   /\ last' = NoCall
                   /\ view' = NoView
                   /\ UNCHANGED <<store, table, apiKey, ref, concvars>>
              ELSE IF f.data.ok
              THEN StorageCall(add_movie(store, table, f.data.title, f.data.year,
                                         f.data.rating, f.data.poster_url),
                               Call("add_movies", "add_movie", f.data.title, f.data.year,
                                    f.data.rating, f.data.poster_url),
                               <<f.out>>)
              ELSE Prompt("year", [op |-> "add", title |-> title, year |-> 0],
                          <<f.out, "manual">>)

del_movies ==
    /\ pc = "menu"
    /\ \E raw \in RawTitles :
          LET title == Strip(raw)
          IN  IF title = Empty THEN NoStorageCall(<<"emptytitle">>)
              ELSE StorageCall(delete_movie(store, table, title),
                               Call("del_movies", "delete_movie", title, 0, 0, Empty), <<>>)

update_movies ==
    /\ pc = "menu"
    /\ \E raw \in RawTitles :
          LET title == Strip(raw)
          IN  IF title = Empty THEN NoStorageCall(<<"emptytitle">>)
              ELSE Prompt("rating", [op |-> "update", title |-> title, year |-> 0], <<>>)

\* One round of get_valid_year's loop, called by add_movies.
get_valid_year ==
    /\ pc = "year"
    /\ \E typed \in YearInputs :
          LET y == ParseInt(typed)
          IN  IF ~y.ok THEN Prompt("year", cur, <<"invalidyear">>)
              ELSE IF MIN_YEAR <= y.val /\ y.val <= MAX_YEAR
              THEN Prompt("rating", [cur EXCEPT !.year = y.val], <<>>)
              ELSE Prompt("year", cur, <<"yearrange">>)

\* One round of get_valid_rating's loop, and what its caller does with the rating.
get_valid_rating ==
    /\ pc = "rating"
    /\ \E typed \in RatingInputs :
          LET r == ParseFloat(typed)
          IN  IF ~r.ok THEN Prompt("rating", cur, <<"invalidrating">>)
              ELSE IF Tenths(MIN_RATING) <= r.val /\ r.val <= Tenths(MAX_RATING)
              THEN IF cur.op = "add"
                   THEN StorageCall(add_movie(store, table, cur.title, cur.year, r.val, Empty),
                                    Call("add_movies", "add_movie", cur.title, cur.year,
                                         r.val, Empty),
                                    <<>>)
                   ELSE StorageCall(update_movie(store, table, cur.title, r.val),
                                    Call("update_movies", "update_movie", cur.title, 0,
                                         r.val, Empty),
                                    <<>>)
              ELSE Prompt("rating", cur, <<"ratingrange">>)

Next ==
    \/ ImportStorage
    \/ main
    \/ Exit
    \/ Restart
    \/ EnvFault
    \/ list_movies
    \/ add_movies
    \/ del_movies
    \/ update_movies
    \/ get_valid_year
    \/ get_valid_rating
    \/ stats_movies
    \/ random_movie
    \/ search_movie
    \/ movies_sorted_by_rating
    \/ generate_website

Spec == Init /\ [][Next]_vars

----------------------------------------------------------------------------
(* Several clients on one store.  Each storage function opens a connection, *)
(* executes its one statement and commits.  SQLite lets one connection      *)
(* write at a time: a statement that writes takes the write lock, another   *)
(* writer's statement waits in the busy handler until commit or rollback    *)
(* releases it, and what a writer has not committed no other connection     *)
(* sees.                                                                    *)

Clients == {1, 2}

ConcTitles == {T_U, T_u}

\* What a client passes to add_movie: one of two records that differ in every field.
Payloads == {Row(Empty, MIN_YEAR, 75, Empty), Row(Empty, MAX_YEAR, 90, P_url)}

\* A client between calls: k is its call that returned last, msg what that printed
\* and ret what it returned.
Done(k, msg, ret) ==
    [pc |-> "idle", op |-> k.op, title |-> k.title, year |-> k.year,
     rating |-> k.rating, poster_url |-> k.poster_url, pending |-> ret,
     rowcount |-> 0, msg |-> msg, n |-> k.n + 1]

Fresh ==
    [pc |-> "idle", op |-> "none", title |-> Empty, year |-> 0, rating |-> 0,
     poster_url |-> Empty, pending |-> <<>>, rowcount |-> 0, msg |-> "none", n |-> 0]

InitConc ==
    /\ store = "ready"
    /\ table = <<>>
    /\ apiKey = FALSE
    /\ pc = "start"
    /\ exc = "none"
    /\ at = "none"
    /\ out = <<>>
    /\ last = NoCall
    /\ view = NoView
    /\ cur = NoCur
    /\ ref = NoRef
    /\ ctable = <<>>
    /\ lock = 0
    /\ cl = [c \in Clients |-> Fresh]
    /\ cref = NoRef

\* with engine.connect(): connection.execute(INSERT ...) in add_movie
ExecInsert(c) ==
    /\ cl[c].pc = "idle"
    /\ cl[c].n < MaxCalls
    /\ lock = 0
    /\ \E t \in ConcTitles, p \in Payloads :
          cl' = [cl EXCEPT ![c] =
                    [pc |-> IF UniqueViolation(ctable, t) THEN "raised" ELSE "executed",
                     op |-> "add_movie", title |-> t, year |-> p.year,
                     rating |-> p.rating, poster_url |-> p.poster_url,
                     pending |-> IF UniqueViolation(ctable, t) THEN ctable
                                 ELSE InsertRow(ctable,
                                                Row(t, p.year, p.rating, p.poster_url)),
                     rowcount |-> 0, msg |-> cl[c].msg, n |-> cl[c].n]]
    /\ lock' = c
    /\ UNCHANGED <<ctable, cref, seqvars>>

\* connection.execute(DELETE ...) in delete_movie
ExecDelete(c) ==
    /\ cl[c].pc = "idle"
    /\ cl[c].n < MaxCalls
    /\ lock = 0
    /\ \E t \in ConcTitles :
          cl' = [cl EXCEPT ![c] =
                    [pc |-> "executed", op |-> "delete_movie", title |-> t, year |-> 0,
                     rating |-> 0, poster_url |-> Empty,
                     pending |-> DeleteRows(ctable, t),
                     rowcount |-> Cardinality(Matches(ctable, t)),
                     msg |-> cl[c].msg, n |-> cl[c].n]]
    /\ lock' = c
    /\ UNCHANGED <<ctable, cref, seqvars>>

\* connection.execute(UPDATE ...) in update_movie
ExecUpdate(c) ==
    /\ cl[c].pc = "idle"
    /\ cl[c].n < MaxCalls
    /\ lock = 0
    /\ \E t \in ConcTitles, r \in {75, 90} :
          cl' = [cl EXCEPT ![c] =
                    [pc |-> "executed", op |-> "update_movie", title |-> t, year |-> 0,
                     rating |-> r, poster_url |-> Empty,
                     pending |-> UpdateRows(ctable, t, r),
                     rowcount |-> Cardinality(Matches(ctable, t)),
                     msg |-> cl[c].msg, n |-> cl[c].n]]
    /\ lock' = c
    /\ UNCHANGED <<ctable, cref, seqvars>>

Reported(k) ==
    CASE k.op = "add_movie" -> "added"
      [] k.op = "delete_movie" -> IF k.rowcount > 0 THEN "deleted" ELSE "notfound"
      [] k.op = "update_movie" -> IF k.rowcount > 0 THEN "updated" ELSE "notfound"
      [] OTHER -> "none"

\* connection.commit() and the message printed after it
Commit(c) ==
    /\ cl[c].pc = "executed"
    /\ ctable' = cl[c].pending
    /\ lock' = IF lock = c THEN 0 ELSE lock
    /\ cl' = [cl EXCEPT ![c] = Done(cl[c], Reported(cl[c]), <<>>)]
    /\ cref' = RefAfter(cref, Call("client", cl[c].op, cl[c].title, cl[c].year,
                                   cl[c].rating, cl[c].poster_url),
                        <<Reported(cl[c])>>)
    /\ UNCHANGED seqvars

\* IntegrityError leaves the with block: the connection is closed, which rolls
\* back, and add_movie prints that the movie already exists.
Rollback(c) ==
    /\ cl[c].pc = "raised"
    /\ lock' = IF lock = c THEN 0 ELSE lock
    /\ cl' = [cl EXCEPT ![c] = Done(cl[c], "exists", <<>>)]
    /\ UNCHANGED <<ctable, cref, seqvars>>

\* list_movies: one SELECT; it takes no write lock and sees what is committed.
Select(c) ==
    /\ cl[c].pc = "idle"
    /\ cl[c].n < MaxCalls
    /\ cl' = [cl EXCEPT ![c] =
                 Done([cl[c] EXCEPT !.op = "list_movies", !.title = Empty, !.year = 0,
                                    !.rating = 0, !.poster_url = Empty],
                      "none", DictOfRows(ctable))]
    /\ UNCHANGED <<ctable, lock, cref, seqvars>>

NextConc ==
    \E c \in Clients :
        \/ Select(c)
        \/ ExecInsert(c)
        \/ ExecDelete(c)
        \/ ExecUpdate(c)
        \/ Commit(c)
        \/ Rollback(c)

SpecConc == InitConc /\ [][NextConc]_vars

----------------------------------------------------------------------------
(* Properties *)

Has(msgs, m) == \E i \in 1..Len(msgs) : msgs[i] = m

Present(tbl, t) == \E i \in 1..Len(tbl) : tbl[i].title = t

Count(tbl, t) == Cardinality({i \in 1..Len(tbl) : tbl[i].title = t})

\* Two titles that differ in letter case only.
CaseVariants(t, u) == t # u /\ Lower(t) = Lower(u)

TypeOK ==
    /\ store \in Stores
    /\ pc \in {"start", "loaded", "menu", "year", "rating", "exit", "crashed"}
    /\ (table # <<>> => store = "ready")

\* C1: add_movie with a title the table holds prints "already exists", lets no
\* exception escape and leaves the table as it was: the row of that title is the
\* same row, and the table and the listing hold that title once.
C1_DuplicateCreateRejected ==
    [][(last'.op = "add_movie" /\ Present(table, last'.title))
        => /\ out' # <<>> /\ out'[Len(out')] = "exists"
           /\ pc' = "menu"
           /\ exc' = "none"
           /\ store' = store
           /\ table' = table
           /\ Count(table', last'.title) = 1
           /\ Count(storage_list_movies(store', table').ret, last'.title) = 1]_vars

\* C1 witness: a create was refused while the row of its title holds another year,
\* rating and poster than the ones passed.
C1_Witness ==
    /\ last.op = "add_movie"
    /\ Has(out, "exists")
    /\ \E i \in 1..Len(table) :
          /\ table[i].title = last.title
          /\ table[i].year # last.year
          /\ table[i].rating # last.rating
          /\ table[i].poster_url # last.poster_url

\* C2: whenever the store can be read, list_movies returns the reference mapping:
\* a title is listed exactly when its last reported create was not followed by a
\* reported delete, once, with the year and poster of that create and the rating of
\* the last reported update since (or of the create).
C2_ListIsReference ==
    store = "ready" =>
        LET m == storage_list_movies(store, table).ret
        IN  /\ \A t \in AllTitles :
                  IF ref[t] = NoRow THEN ~Present(m, t)
                  ELSE /\ Count(m, t) = 1
                       /\ \E i \in 1..Len(m) : m[i] = ref[t]
                       /\ ref[t].title = t
            /\ Len(m) = Cardinality({t \in AllTitles : ref[t] # NoRow})
            /\ \A i \in 1..Len(m) : m[i].title \in AllTitles

\* C2 witness: a create has just been listed back whole, beside a record whose
\* rating an update has changed since its own create.
C2_Witness ==
    /\ store = "ready"
    /\ last.op = "add_movie"
    /\ Has(out, "added")
    /\ Len(table) = 3
    /\ table[Len(table)] = Row(last.title, last.year, last.rating, last.poster_url)
    /\ \E i \in 1..Len(table) : table[i].rating = 90 /\ table[i].poster_url = P_url

\* C3: update_movie on a title the table holds prints "updated", sets the rating of
\* that row and changes nothing else; on a title the table does not hold it prints
\* "not found" and leaves the table as it was.
C3_UpdateChangesOnlyRating ==
    [][(last'.op = "update_movie" /\ store = "ready")
        => /\ pc' = "menu"
           /\ store' = store
           /\ Len(table') = Len(table)
           /\ IF Present(table, last'.title)
              THEN /\ out' = <<"updated">>
                   /\ \A i \in 1..Len(table) :
                         /\ table'[i].title = table[i].title
                         /\ table'[i].year = table[i].year
                         /\ table'[i].poster_url = table[i].poster_url
                         /\ table'[i].rating = IF table[i].title = last'.title
                                               THEN last'.rating ELSE table[i].rating
              ELSE /\ out' = <<"notfound">>
                   /\ table' = table]_vars

\* C3 witness: an update changed one rating while a title that differs from it in
\* letter case only kept another one.
C3_Witness ==
    /\ last.op = "update_movie"
    /\ out = <<"updated">>
    /\ \E i, j \in 1..Len(table) :
          /\ table[i].title = last.title
          /\ table[i].rating = last.rating
          /\ CaseVariants(table[j].title, last.title)
          /\ table[j].rating # last.rating

\* C4: delete_movie on a title the table holds prints "deleted" and removes that
\* row and no other; on a title the table does not hold, one that differs in letter
\* case from a stored title included, it prints "not found" and leaves the table as
\* it was.
C4_DeleteRemovesExactlyOne ==
    [][(last'.op = "delete_movie" /\ store = "ready")
        => /\ pc' = "menu"
           /\ store' = store
           /\ IF Present(table, last'.title)
              THEN /\ out' = <<"deleted">>
                   /\ Len(table') = Len(table) - 1
                   /\ ~Present(table', last'.title)
                   /\ \A i \in 1..Len(table) :
                         table[i].title # last'.title
                             => \E j \in 1..Len(table') : table'[j] = table[i]
              ELSE /\ out' = <<"notfound">>
                   /\ table' = table]_vars

\* C4 witness: a delete found nothing although a title that differs in letter case
\* only is stored.
C4_Witness ==
    /\ last.op = "delete_movie"
    /\ out = <<"notfound">>
    /\ \E i \in 1..Len(table) : CaseVariants(table[i].title, last.title)

\* C4 witness of the other case: a delete removed one row and left others.
C4_WitnessDeleted ==
    /\ last.op = "delete_movie"
    /\ out = <<"deleted">>
    /\ Len(table) = 2

\* C5: whatever is wrong with the store, list_movies prints the database error,
\* returns the empty mapping and lets no exception escape, so the catalog function
\* that called it returns to the menu.
C5_ListNeverRaises ==
    (last.op = "list_movies" /\ store # "ready")
        => (pc = "menu" /\ exc = "none" /\ Has(out, "dberror"))

\* C6: whatever the lookup gives that is no usable record, add_movies lets no
\* exception escape from the lookup: it goes on to the prompts for year and rating.
C6_LookupFailureFallsBack == ~(pc = "crashed" /\ at = "fetch_movie_data")

Listing == storage_list_movies(store, table).ret

Pos(m, row) == CHOOSE i \in 1..Len(m) : m[i] = row

\* C7: movies_sorted_by_rating shows every listed record once, no rating below the
\* one after it, and records of one rating in the order list_movies gave them.
C7_SortedDescendingStable ==
    (last.fn = "movies_sorted_by_rating" /\ pc = "menu" /\ store = "ready"
     /\ table # <<>>)
        => /\ view.kind = "sorted"
           /\ Len(view.items) = Len(Listing)
           /\ \A i \in 1..Len(Listing) :
                 Cardinality({j \in 1..Len(view.items) : view.items[j] = Listing[i]}) = 1
           /\ \A j, k \in 1..Len(view.items) :
                 j < k =>
                    /\ view.items[j].rating >= view.items[k].rating
                    /\ (view.items[j].rating = view.items[k].rating
                           => Pos(Listing, view.items[j]) < Pos(Listing, view.items[k]))

\* C7 witness: three records were sorted, two of one rating behind a higher one that
\* list_movies gave last.
C7_Witness ==
    /\ last.fn = "movies_sorted_by_rating"
    /\ view.kind = "sorted"
    /\ Len(view.items) = 3
    /\ view.items[1] = Listing[3]
    /\ view.items[2] = Listing[1]
    /\ view.items[2].rating = view.items[3].rating
    /\ view.items[1].rating > view.items[2].rating

RECURSIVE SumUpTo(_, _)
SumUpTo(m, n) == IF n = 0 THEN 0 ELSE SumUpTo(m, n - 1) + m[n].rating

FirstWith(m, r) == CHOOSE i \in 1..Len(m) : m[i].rating = r /\ \A j \in 1..(i - 1) : m[j].rating # r

\* C8: stats_movies on a listing that is not empty divides the sum of all ratings
\* by their number and names as best (worst) the first listed record of the highest
\* (lowest) rating; on an empty listing, one a failed read gave included, it prints
\* that there is nothing to show and divides nothing.
C8_StatsMeanBestWorst ==
    (last.fn = "stats_movies" /\ pc = "menu")
        => IF store # "ready" \/ Listing = <<>>
           THEN Has(out, "nostats") /\ view = NoView
           ELSE /\ view.kind = "stats"
                /\ view.den = Len(Listing)
                /\ view.den > 0
                /\ view.num = SumUpTo(Listing, Len(Listing))
                /\ \A i \in 1..Len(Listing) :
                      /\ Listing[i].rating <= view.best[1].rating
                      /\ Listing[i].rating >= view.worst[1].rating
                /\ view.best[1] = Listing[FirstWith(Listing, view.best[1].rating)]
                /\ view.worst[1] = Listing[FirstWith(Listing, view.worst[1].rating)]

\* C8 witness: statistics of three records, the second and third tied for the
\* highest rating, and the second named as best.
C8_Witness ==
    /\ last.fn = "stats_movies"
    /\ view.kind = "stats"
    /\ Len(Listing) = 3
    /\ Listing[2].rating = Listing[3].rating
    /\ Listing[1].rating < Listing[2].rating
    /\ view.best[1] = Listing[2]

\* C8 witness of the other case: a read failed and stats_movies had nothing to show.
C8_WitnessEmpty ==
    /\ last.fn = "stats_movies"
    /\ out = <<"dberror", "nostats">>

\* C10: when the module creates its table, the directory of the store is there.
C10_DirectoryBeforeSchema == last.op = "create_table" => store # "nodir"

\* C9: whatever the interleaving of two clients, no title is stored twice; the table
\* holds for each title the whole record of the create that was reported added last
\* (with the rating of a later reported update); a create raises IntegrityError only
\* for a stored title and is executed only for one not stored; of two creates of one
\* title, each the only call of its client, one is reported added and the other as
\* existing, and the row is the first one's; and a listing holds whole records only.
C9_UniqueUnderConcurrency ==
    /\ \A t \in ConcTitles : Count(ctable, t) <= 1
    /\ \A t \in AllTitles :
          IF cref[t] = NoRow THEN ~Present(ctable, t)
          ELSE \E i \in 1..Len(ctable) : ctable[i] = cref[t]
    /\ \A c \in Clients :
          /\ cl[c].pc = "raised" => Present(ctable, cl[c].title)
          /\ (cl[c].pc = "executed" /\ cl[c].op = "add_movie")
                => ~Present(ctable, cl[c].title)
          /\ (cl[c].pc = "idle" /\ cl[c].op = "list_movies")
                => \A i \in 1..Len(cl[c].pending) :
                      \E p \in Payloads :
                         /\ cl[c].pending[i].year = p.year
                         /\ cl[c].pending[i].poster_url = p.poster_url
    /\ \A c, d \in Clients :
          (/\ c # d
           /\ cl[c].pc = "idle" /\ cl[d].pc = "idle"
           /\ cl[c].n = 1 /\ cl[d].n = 1
           /\ cl[c].op = "add_movie" /\ cl[d].op = "add_movie"
           /\ cl[c].title = cl[d].title)
             => /\ {cl[c].msg, cl[d].msg} = {"added", "exists"}
                /\ cl[c].msg = "added"
                      => \E i \in 1..Len(ctable) :
                            ctable[i] = Row(cl[c].title, cl[c].year, cl[c].rating,
                                            cl[c].poster_url)

\* C9 witness: both clients created the same title with records that differ; the
\* second client's create was executed first and its record is the one stored.
C9_Witness ==
    /\ cl[1].pc = "idle" /\ cl[2].pc = "idle"
    /\ cl[1].n = 1 /\ cl[2].n = 1
    /\ cl[1].op = "add_movie" /\ cl[2].op = "add_movie"
    /\ cl[1].title = cl[2].title
    /\ cl[1].year # cl[2].year
    /\ cl[1].msg = "exists" /\ cl[2].msg = "added"
    /\ ctable = <<Row(cl[2].title, cl[2].year, cl[2].rating, cl[2].poster_url)>>

====
